---- MODULE Spec2Model ----
(***************************************************************************)
(* Model of src/unit.rs: the monomial term  coef * x^xpow * y^ypow  with   *)
(* arbitrary-precision integer fields, its operators (product, quotient,   *)
(* negation), its                                                          *)
(* methods (equal_order, power, to_frob, modular, is_zero, has_y), its     *)
(* ordering (Ord::cmp) and its Display rendering.                          *)
(*                                                                         *)
(* Every operation is a pure function of its operands.  The state holds    *)
(* the operands a caller constructed (a, b, k), the operation the caller   *)
(* ran last (op), how it ended (status: a value or a panic) and what it    *)
(* returned (out, flag, ord, text).  Strings are sequences of characters.  *)
(***************************************************************************)
EXTENDS Integers, Sequences, FiniteSets

VARIABLES a, b, k, op, status, out, flag, ord, text

vars == <<a, b, k, op, status, out, flag, ord, text>>

\* ---------------------------------------------------------------- bounds
\* coefficients of the operands range over -MaxCoef..MaxCoef
MaxCoef == 7
\* exponents of the operands range over -MaxPow..MaxPow
MaxPow == 1
\* the scalar argument of power/to_frob/modular ranges over -MaxVal..MaxVal
MaxVal == 3
\* the terms rendered by Display have fields in -MaxSmall..MaxSmall, or
\* BigVal and -BigVal, a value of more than one decimal digit
MaxSmall == 3
BigVal == 12

\* ------------------------------------------------------------ the struct
\* pub struct Unit { coef, xpow, ypow }
Unit(c, x, y) == [coef |-> c, xpow |-> x, ypow |-> y]

\* #[derive(Default)]: every BigInt field is zero
DefaultUnit == Unit(0, 0, 0)

Coefs == -MaxCoef..MaxCoef
Pows == -MaxPow..MaxPow
Vals == -MaxVal..MaxVal
Terms == {Unit(c, x, y) : c \in Coefs, x \in Pows, y \in Pows}

\* operands of Display: small values and values of several digits
DispVals == (-MaxSmall..MaxSmall) \cup {BigVal, -BigVal}
DispTerms == {Unit(c, x, y) : c \in DispVals, x \in DispVals, y \in DispVals}

\* ------------------------------------------------- big-integer arithmetic
Abs(n) == IF n < 0 THEN -n ELSE n

Sign(n) == IF n < 0 THEN -1 ELSE IF n > 0 THEN 1 ELSE 0

\* floored quotient: the quotient a careless port to a flooring division gives
FloorDiv(n, d) == IF d > 0 THEN n \div d ELSE (-n) \div (-d)

\* BigInt / BigInt for a nonzero divisor: the quotient of the magnitudes,
\* negative exactly when the signs differ (truncation toward zero)
TruncDiv(n, d) == Sign(n) * Sign(d) * (Abs(n) \div Abs(d))

\* mathematical residue in 0..|d|-1
FloorRem(n, d) == n % Abs(d)

\* BigInt % BigInt for a nonzero divisor: the remainder of the magnitudes
\* with the sign of the dividend
TruncRem(n, d) == Sign(n) * (Abs(n) % Abs(d))

\* num_traits::pow, the loops of exponentiation by squaring:
\* PowAcc is the second loop (acc, base, exp), PowStrip the first (base, exp)
RECURSIVE PowAcc(_, _, _)
PowAcc(acc, base, exp) ==
  IF exp > 1
  THEN LET e2 == exp \div 2
           b2 == base * base
       IN PowAcc(IF e2 % 2 = 1 THEN acc * b2 ELSE acc, b2, e2)
  ELSE acc

RECURSIVE PowStrip(_, _)
PowStrip(base, exp) ==
  IF exp % 2 = 0 THEN PowStrip(base * base, exp \div 2)
  ELSE IF exp = 1 THEN base
  ELSE PowAcc(base, base, exp)

\* a power that forgets the exp == 0 case and returns the base
PowNoZero(base, exp) == IF exp = 0 THEN base ELSE PowStrip(base, exp)

pow(base, exp) == IF exp = 0 THEN 1 ELSE PowStrip(base, exp)

\* ------------------------------------------------------------- operators
\* a product that adds the coefficients
MulAddCoef(u, v) == Unit(u.coef + v.coef, u.xpow + v.xpow, u.ypow + v.ypow)

\* operator * on Unit (impl_op_ex)
Mul(u, v) == Unit(u.coef * v.coef, u.xpow + v.xpow, u.ypow + v.ypow)

\* a quotient with a flooring coefficient division
DivFloor(u, v) ==
  Unit(FloorDiv(u.coef, v.coef), u.xpow - v.xpow, u.ypow - v.ypow)

\* a quotient that adds the exponents as the product does
DivAddPow(u, v) ==
  Unit(TruncDiv(u.coef, v.coef), u.xpow + v.xpow, u.ypow + v.ypow)

\* operator / on Unit (impl_op_ex), divisor coefficient nonzero
Div(u, v) == Unit(TruncDiv(u.coef, v.coef), u.xpow - v.xpow, u.ypow - v.ypow)

\* unary operator - on Unit (impl_op_ex)
Neg(u) == Unit(-u.coef, u.xpow, u.ypow)

\* --------------------------------------------------------------- methods
equal_order(u, v) == u.xpow = v.xpow /\ u.ypow = v.ypow

power(u, val) == Unit(pow(u.coef, val), u.xpow * val, u.ypow * val)

to_frob(u, val) == Unit(u.coef, u.xpow * val, u.ypow * val)

\* a reduction normalised to 0..|val|-1
ModularFloor(u, val) == Unit(FloorRem(u.coef, val), u.xpow, u.ypow)

\* Unit::modular for a nonzero val
modular(u, val) == Unit(TruncRem(u.coef, val), u.xpow, u.ypow)

is_zero(u) == u.coef = 0

has_y(u) == u.ypow # 0

\* a comparison with ypow as the primary key
CmpYFirst(u, v) ==
  IF u.ypow < v.ypow THEN "Less"
  ELSE IF u.ypow > v.ypow THEN "Greater"
  ELSE IF u.xpow < v.xpow THEN "Less"
  ELSE IF u.xpow > v.xpow THEN "Greater"
  ELSE "Equal"

\* impl Ord for Unit
cmp(u, v) ==
  IF u.xpow < v.xpow THEN "Less"
  ELSE IF u.xpow > v.xpow THEN "Greater"
  ELSE IF u.ypow < v.ypow THEN "Less"
  ELSE IF u.ypow > v.ypow THEN "Greater"
  ELSE "Equal"

\* --------------------------------------------------------------- Display
Digit(d) == <<"0", "1", "2", "3", "4", "5", "6", "7", "8", "9">>[d + 1]

\* decimal digits of a non-negative integer, most significant first
RECURSIVE Digits(_)
Digits(n) == IF n < 10 THEN <<Digit(n)>> ELSE Digits(n \div 10) \o <<Digit(n % 10)>>

\* BigInt::to_string: base 10, a leading "-" for a negative value
to_string(n) == IF n < 0 THEN <<"-">> \o Digits(-n) ELSE Digits(n)

\* a trim that removes nothing
TrimNone(st) == st

\* str::trim_end: drop the trailing whitespace
RECURSIVE TrimEnd(_)
TrimEnd(st) ==
  IF Len(st) > 0 /\ st[Len(st)] = " " THEN TrimEnd(SubSeq(st, 1, Len(st) - 1))
  ELSE st

\* the x block of fmt: nothing for xpow 0, "x " for 1, "x^<xpow> " otherwise
PushX(st, u) ==
  IF u.xpow # 0
  THEN (IF u.xpow = 1 THEN st \o <<"x">>
        ELSE st \o <<"x", "^">> \o to_string(u.xpow)) \o <<" ">>
  ELSE st

\* the y block of fmt: nothing for ypow 0, "y" for 1, "y^<ypow>" otherwise
PushY(st, u) ==
  IF u.ypow # 0
  THEN IF u.ypow = 1 THEN st \o <<"y">>
       ELSE st \o <<"y", "^">> \o to_string(u.ypow)
  ELSE st

\* the last branch of fmt: the coefficient is always written
FmtCoef(u) ==
  LET st == IF u.coef >= 0 THEN to_string(u.coef)
            ELSE <<"-", " ">> \o to_string(u.coef * (-1))
  IN TrimEnd(PushY(PushX(st \o <<" ">>, u), u))

\* a rendering without the branches for the coefficients 1 and -1
DisplayAlwaysCoef(u) == FmtCoef(u)

\* impl fmt::Display for Unit
Display(u) ==
  IF u.coef = 1
  THEN IF u.xpow = 0 /\ u.ypow = 0 THEN <<"1">>
       ELSE TrimEnd(PushY(PushX(<<>>, u), u))
  ELSE IF u.coef = -1
  THEN IF u.xpow = 0 /\ u.ypow = 0 THEN <<"-", " ", "1">>
       ELSE TrimEnd(PushY(PushX(<<"-", " ">>, u), u))
  ELSE FmtCoef(u)

\* ----------------------------------------------- how an operation ends
\* a division that returns a value for a zero divisor
DivStatusSilent(d) == "ok"

\* BigInt / BigInt panics on a zero divisor ("attempt to divide by zero")
DivStatus(d) == IF d = 0 THEN "panic" ELSE "ok"

\* a remainder that returns a value for a zero modulus
RemStatusSilent(d) == "ok"

\* BigInt % BigInt panics on a zero divisor
RemStatus(d) == IF d = 0 THEN "panic" ELSE "ok"

\* ----------------------------------------------------------------- state
TypeOK ==
  /\ a \in [coef : Int, xpow : Int, ypow : Int]
  /\ b \in [coef : Int, xpow : Int, ypow : Int]
  /\ k \in Int
  /\ status \in {"none", "ok", "panic"}
  /\ out \in [coef : Int, xpow : Int, ypow : Int]
  /\ flag \in BOOLEAN
  /\ ord \in {"Less", "Equal", "Greater"}

\* nothing has run yet: no result of any kind
NoResult ==
  /\ op = "none"
  /\ status = "none"
  /\ out = DefaultUnit
  /\ flag = FALSE
  /\ ord = "Equal"
  /\ text = <<>>

\* two terms constructed by the caller
InitArith == a \in Terms /\ b \in Terms /\ k = 0 /\ NoResult

\* one term and a scalar argument (usize or BigInt)
InitScalar == a \in Terms /\ b = DefaultUnit /\ k \in Vals /\ NoResult

\* one term to render
InitDisplay == a \in DispTerms /\ b = DefaultUnit /\ k = 0 /\ NoResult

Init == InitArith \/ InitScalar \/ InitDisplay

\* u2.clone() * u3.clone(): the by-value form of the operator
MultiplyVal ==
  /\ op = "none"
  /\ op' = "mul_val"
  /\ status' = "ok"
  /\ out' = Mul(a, b)
  /\ UNCHANGED <<a, b, k, flag, ord, text>>

\* &u2 * &u3: the by-reference form of the operator
MultiplyRef ==
  /\ op = "none"
  /\ op' = "mul_ref"
  /\ status' = "ok"
  /\ out' = Mul(a, b)
  /\ UNCHANGED <<a, b, k, flag, ord, text>>

\* (product).to_string(), as the test renders the product
DisplayProduct ==
  /\ op \in {"mul_val", "mul_ref"}
  /\ op' = (IF op = "mul_val" THEN "str_val" ELSE "str_ref")
  /\ text' = Display(out)
  /\ UNCHANGED <<a, b, k, status, out, flag, ord>>

\* a / b
Divide ==
  /\ op = "none"
  /\ op' = "div"
  /\ status' = DivStatus(b.coef)
  /\ out' = (IF b.coef = 0 THEN out ELSE Div(a, b))
  /\ UNCHANGED <<a, b, k, flag, ord, text>>

\* (a * b) / b
DivideProduct ==
  /\ op \in {"mul_val", "mul_ref"}
  /\ op' = "mul_div"
  /\ status' = DivStatus(b.coef)
  /\ out' = (IF b.coef = 0 THEN DefaultUnit ELSE Div(out, b))
  /\ UNCHANGED <<a, b, k, flag, ord, text>>

\* a.equal_order(&b)
EqualOrder ==
  /\ op = "none"
  /\ op' = "equal_order"
  /\ status' = "ok"
  /\ flag' = equal_order(a, b)
  /\ UNCHANGED <<a, b, k, out, ord, text>>

\* a.cmp(&b)
Compare ==
  /\ op = "none"
  /\ op' = "cmp"
  /\ status' = "ok"
  /\ ord' = cmp(a, b)
  /\ UNCHANGED <<a, b, k, out, flag, text>>

\* -a
Negate ==
  /\ op = "none"
  /\ op' = "neg"
  /\ status' = "ok"
  /\ out' = Neg(a)
  /\ UNCHANGED <<a, b, k, flag, ord, text>>

\* a.power(k), k: usize
Power ==
  /\ op = "none"
  /\ k >= 0
  /\ op' = "power"
  /\ status' = "ok"
  /\ out' = power(a, k)
  /\ UNCHANGED <<a, b, k, flag, ord, text>>

\* a.to_frob(k), k: usize
ToFrob ==
  /\ op = "none"
  /\ k >= 0
  /\ op' = "to_frob"
  /\ status' = "ok"
  /\ out' = to_frob(a, k)
  /\ UNCHANGED <<a, b, k, flag, ord, text>>

\* a.modular(k), k: BigInt
Modular ==
  /\ op = "none"
  /\ op' = "modular"
  /\ status' = RemStatus(k)
  /\ out' = (IF k = 0 THEN out ELSE modular(a, k))
  /\ UNCHANGED <<a, b, k, flag, ord, text>>

\* a.is_zero()
IsZero ==
  /\ op = "none"
  /\ op' = "is_zero"
  /\ status' = "ok"
  /\ flag' = is_zero(a)
  /\ UNCHANGED <<a, b, k, out, ord, text>>

\* a.has_y()
HasY ==
  /\ op = "none"
  /\ op' = "has_y"
  /\ status' = "ok"
  /\ flag' = has_y(a)
  /\ UNCHANGED <<a, b, k, out, ord, text>>

\* a.to_string()
ToStr ==
  /\ op = "none"
  /\ op' = "to_string"
  /\ status' = "ok"
  /\ text' = Display(a)
  /\ UNCHANGED <<a, b, k, out, flag, ord>>

NextArith ==
  \/ MultiplyVal
  \/ MultiplyRef
  \/ DisplayProduct
  \/ Divide
  \/ DivideProduct
  \/ EqualOrder
  \/ Compare

NextScalar ==
  \/ Negate
  \/ Power
  \/ ToFrob
  \/ Modular
  \/ IsZero
  \/ HasY

NextDisplay == ToStr

Next == NextArith \/ NextScalar \/ NextDisplay

\* operations on two terms
SpecArith == InitArith /\ [][NextArith]_vars

\* operations on one term and a scalar
SpecScalar == InitScalar /\ [][NextScalar]_vars

\* rendering of one term
SpecDisplay == InitDisplay /\ [][NextDisplay]_vars

Spec == Init /\ [][Next]_vars

\* ---------------------------------------------------------------- claims
IsPrefix(p, st) == Len(p) <= Len(st) /\ SubSeq(st, 1, Len(p)) = p

\* C1: multiplication multiplies the coefficients and adds the exponents,
\* whether the operands are passed by value or by reference; 4 times 3 with
\* zero exponents renders as "12" in both forms.
C1_Multiply ==
  /\ op \in {"mul_val", "mul_ref", "str_val", "str_ref"} =>
       /\ status = "ok"
       /\ out.coef = a.coef * b.coef
       /\ out.xpow = a.xpow + b.xpow
       /\ out.ypow = a.ypow + b.ypow
  /\ (op \in {"str_val", "str_ref"} /\ a = Unit(4, 0, 0) /\ b = Unit(3, 0, 0)) =>
       text = <<"1", "2">>

C1_Witness ==
  /\ op = "str_ref"
  /\ a = Unit(4, 0, 0)
  /\ b = Unit(3, 0, 0)
  /\ text = <<"1", "2">>

\* the exponent part of the rendering rule: nothing for 0, the bare symbol
\* for 1, symbol^exponent otherwise
ExpPart(sym, e) ==
  IF e = 0 THEN <<>>
  ELSE IF e = 1 THEN <<sym>>
  ELSE <<sym, "^">> \o (IF e < 0 THEN <<"-">> ELSE <<>>) \o Digits(Abs(e))

\* the exponent parts, x before y, joined by one space
ExpParts(u) ==
  LET px == ExpPart("x", u.xpow)
      py == ExpPart("y", u.ypow)
  IN IF px = <<>> THEN py
     ELSE IF py = <<>> THEN px
     ELSE px \o <<" ">> \o py

\* the three-branch rendering rule
RuleRender(u) ==
  LET parts == ExpParts(u)
      mag == (IF u.coef < 0 THEN <<"-", " ">> ELSE <<>>) \o Digits(Abs(u.coef))
  IN IF u.coef = 1 THEN (IF parts = <<>> THEN <<"1">> ELSE parts)
     ELSE IF u.coef = -1
     THEN (IF parts = <<>> THEN <<"-", " ", "1">> ELSE <<"-", " ">> \o parts)
     ELSE IF parts = <<>> THEN mag ELSE mag \o <<" ">> \o parts

\* C2: the rendering of every term is the output of the three-branch rule;
\* the default term renders "0", a term with zero exponents renders as its
\* coefficient alone, a zero coefficient still gets its exponent parts.
C2_Render ==
  op = "to_string" =>
    /\ text = RuleRender(a)
    /\ a = DefaultUnit => text = <<"0">>
    /\ a = Unit(3, 0, 0) => text = <<"3">>
    /\ a = Unit(0, 2, 1) => text = <<"0", " ", "x", "^", "2", " ", "y">>
    /\ (Len(text) > 0 /\ text[Len(text)] # " ")

C2_Witness ==
  /\ op = "to_string"
  /\ a = Unit(-BigVal, -2, 0)
  /\ text = <<"-", " ">> \o Digits(BigVal) \o <<" ", "x", "^", "-", "2">>

\* C3 as stated: a division by a zero coefficient ends in a DivisionByZero
\* error returned to the caller.
C3_Original == (op = "div" /\ b.coef = 0) => status = "DivisionByZero"

\* C3 amended: a division by a zero coefficient panics, for every dividend
\* and every exponents of the divisor, and produces no term value.
C3_DivideByZeroPanics ==
  (op = "div" /\ b.coef = 0) => (status = "panic" /\ out = DefaultUnit)

C3_Witness ==
  /\ op = "div"
  /\ b.coef = 0
  /\ b.xpow # 0
  /\ a.coef # 0
  /\ status = "panic"

\* C4 as stated: a reduction by the modulus 0 ends in an InvalidModulus error
\* that propagates to the caller.
C4_Original == (op = "modular" /\ k = 0) => status = "InvalidModulus"

\* C4 amended: a reduction by the modulus 0 panics, for every term, and
\* produces no term value.
C4_ModulusZeroPanics ==
  (op = "modular" /\ k = 0) => (status = "panic" /\ out = DefaultUnit)

C4_Witness ==
  /\ op = "modular"
  /\ k = 0
  /\ a.coef # 0
  /\ a.ypow # 0
  /\ status = "panic"

\* C5: for a nonzero divisor coefficient the quotient's coefficient is the
\* quotient truncated toward zero (the remainder is smaller than the divisor
\* in magnitude and is zero or has the dividend's sign) and the exponents are
\* subtracted, negative results included.
C5_Divide ==
  (op = "div" /\ b.coef # 0) =>
    /\ status = "ok"
    /\ out.xpow = a.xpow - b.xpow
    /\ out.ypow = a.ypow - b.ypow
    /\ LET r == a.coef - out.coef * b.coef
       IN /\ Abs(r) < Abs(b.coef)
          /\ (r = 0 \/ Sign(r) = Sign(a.coef))
    /\ (a.coef = -7 /\ b.coef = 2) => out.coef = -3
    /\ (a.coef = 7 /\ b.coef = -2) => out.coef = -3

C5_Witness ==
  /\ op = "div"
  /\ a.coef = -7
  /\ b.coef = 2
  /\ out.coef = -3
  /\ out.xpow < 0

\* C6: for a modulus m > 0 the reduction keeps the exponents and returns the
\* raw remainder r = coef - m * trunc(coef / m): |r| < m, r is zero or has
\* the sign of coef, negative when coef is negative and not a multiple of m.
C6_Modular ==
  (op = "modular" /\ k > 0) =>
    /\ status = "ok"
    /\ out.xpow = a.xpow
    /\ out.ypow = a.ypow
    /\ out.coef = a.coef - k * TruncDiv(a.coef, k)
    /\ Abs(out.coef) < k
    /\ (out.coef = 0 \/ Sign(out.coef) = Sign(a.coef))
    /\ (a.coef < 0 /\ a.coef % k # 0) => out.coef < 0

C6_Witness ==
  /\ op = "modular"
  /\ a.coef = -3
  /\ k = 2
  /\ out.coef = -1

\* the n-th power by repeated multiplication
RECURSIVE NaivePow(_, _)
NaivePow(base, n) == IF n = 0 THEN 1 ELSE base * NaivePow(base, n - 1)

\* C7: power(a, n) has coefficient coef^n and both exponents multiplied by
\* n; power(a, 0) is the term 1 with exponents (0, 0) for every a.
C7_Power ==
  op = "power" =>
    /\ status = "ok"
    /\ out.coef = NaivePow(a.coef, k)
    /\ out.xpow = a.xpow * k
    /\ out.ypow = a.ypow * k
    /\ k = 0 => out = Unit(1, 0, 0)

C7_Witness ==
  /\ op = "power"
  /\ k = 0
  /\ a.coef = 0
  /\ a.xpow < 0
  /\ out = Unit(1, 0, 0)

\* the rendering without its sign prefix "- "
Unsigned(st) == IF IsPrefix(<<"-", " ">>, st) THEN SubSeq(st, 3, Len(st)) ELSE st

\* the rendering writes the magnitude of the coefficient as its first token
PrintsMagnitude(st, c) ==
  LET body == Unsigned(st)
      mag == Digits(Abs(c))
  IN /\ IsPrefix(mag, body)
     /\ (Len(body) = Len(mag) \/ body[Len(mag) + 1] = " ")

\* the sign prefix is there exactly when the coefficient is negative
SignOK(st, c) == IsPrefix(<<"-", " ">>, st) <=> c < 0

\* C8 as stated: with coefficient 1 or -1, whatever the exponents, the
\* coefficient digit is never printed; outside {-1, 0, 1} the magnitude is
\* always printed with the right sign prefix.
C8_Original ==
  op = "to_string" =>
    /\ a.coef \in {1, -1} => ~PrintsMagnitude(text, a.coef)
    /\ a.coef \notin {-1, 0, 1} => (PrintsMagnitude(text, a.coef) /\ SignOK(text, a.coef))

\* C8 amended: with coefficient 1 or -1 and a nonzero exponent the
\* coefficient digit is not printed (with both exponents zero the rendering
\* is "1" or "- 1"); outside {-1, 0, 1} the magnitude is always printed,
\* after "- " exactly when the coefficient is negative.
C8_CoefDigit ==
  op = "to_string" =>
    /\ (a.coef \in {1, -1} /\ (a.xpow # 0 \/ a.ypow # 0)) =>
         (~PrintsMagnitude(text, a.coef) /\ SignOK(text, a.coef))
    /\ (a.coef \in {1, -1} /\ a.xpow = 0 /\ a.ypow = 0) =>
         (Unsigned(text) = <<"1">> /\ SignOK(text, a.coef))
    /\ a.coef \notin {-1, 0, 1} => (PrintsMagnitude(text, a.coef) /\ SignOK(text, a.coef))

C8_Witness ==
  /\ op = "to_string"
  /\ a = Unit(-1, 1, BigVal)
  /\ text = <<"-", " ", "x", " ", "y", "^">> \o Digits(BigVal)

\* ascending lexicographic order on (xpow, ypow)
LexLess(u, v) == u.xpow < v.xpow \/ (u.xpow = v.xpow /\ u.ypow < v.ypow)

\* C9: cmp is the ascending lexicographic order on (xpow, ypow) and ignores
\* the coefficient; equal_order holds iff both exponents are equal, is an
\* equivalence, and implies cmp = Equal, also for different coefficients.
C9_Order ==
  /\ op = "cmp" =>
       /\ ord = "Less" <=> LexLess(a, b)
       /\ ord = "Greater" <=> LexLess(b, a)
       /\ equal_order(a, b) => ord = "Equal"
  /\ op = "equal_order" =>
       /\ flag <=> (a.xpow = b.xpow /\ a.ypow = b.ypow)
       /\ equal_order(a, a)
       /\ flag <=> equal_order(b, a)
       /\ \A c \in Terms : (flag /\ equal_order(b, c)) => equal_order(a, c)

C9_Witness ==
  /\ op = "cmp"
  /\ ord = "Equal"
  /\ a.coef # b.coef
  /\ a.xpow < 0

\* C10: dividing a product by its second factor gives back the first factor
\* in all three fields, for every nonzero divisor coefficient.
C10_DivideUndoesMultiply ==
  (op = "mul_div" /\ b.coef # 0) => (status = "ok" /\ out = a)

C10_Witness ==
  /\ op = "mul_div"
  /\ a.coef = -7
  /\ b.coef = -2
  /\ a.xpow < 0
  /\ b.ypow > 0
  /\ out = a

====
